---- MODULE Spec2Model ----
(***************************************************************************)
(* IncompleteBlock (core/lib/types/src/block/incomplete_block.rs): the two *)
(* constructors, the block-size selection and the two time queries.        *)
(*                                                                         *)
(* usize values are modelled as naturals.  The only usize arithmetic is    *)
(* the sum of chunks_used(); a Vec cannot hold enough operations for that  *)
(* sum to leave the usize range, so no wrap-around is modelled there.  The *)
(* u64 timestamp and its `as i64` cast keep their width, scaled down to    *)
(* TimestampBits bits, and the calendar range of chrono is scaled with it. *)
(* Durations and the clock are counted in whole seconds.                   *)
(***************************************************************************)
EXTENDS Integers, Sequences, FiniteSets

VARIABLES
    inputs,       \* arguments of the constructor call that was made
    ctor_outcome, \* "none" | "returned" | "panicked": how that call ended
    block,        \* the IncompleteBlock the constructor returned
    chunks_local, \* local `chunks_used` of smallest_block_size (line 103)
    panic_info,   \* what the panic of the constructor reported
    now,          \* Utc::now() as read by the last elapsed() call
    query         \* the last time query and how it ended

vars == <<inputs, ctor_outcome, block, chunks_local, panic_info, now, query>>

---------------------------------------------------------------------------
(* Bounds of the model *)

\* longest block_transactions list
MaxOps == 2
\* largest ZkSyncOp::chunks() value of one operation
MaxOpChunks == 2
\* longest available_block_chunks_sizes slice
MaxTiers == 2
\* largest value of one supported block size
MaxTierSize == 2
\* width of the timestamp field, scaled down from the 64 bits of u64
TimestampBits == 3
\* seconds of one calendar day, scaled down
SecsPerDay == 2
\* last day after the epoch that a DateTime can hold; the first is -MaxDays - 1
MaxDays == 0
\* largest clock reading, in seconds
MaxNow == 2

---------------------------------------------------------------------------
(* Values *)

RECURSIVE Pow2(_)
Pow2(n) == IF n = 0 THEN 1 ELSE 2 * Pow2(n - 1)

\* the values of a u64 (scaled)
U64 == 0 .. (Pow2(TimestampBits) - 1)

\* `x as i64` of a u64 x: the same bits read in two's complement
AsI64(x) == IF x >= Pow2(TimestampBits - 1) THEN x - Pow2(TimestampBits) ELSE x

\* Option<T>: None is the empty sequence, Some(x) is <<x>>
None == << >>
Some(x) == <<x>>

\* ZkSyncOp, as far as this file uses it: its chunks() value
ZkSyncOp == [chunks : 1 .. MaxOpChunks]

\* ExecutedOperations, as far as this file uses it: what get_executed_op() yields
ExecutedOperations == [executed_op : {None} \cup {Some(op) : op \in ZkSyncOp}]

get_executed_op(e) == e.executed_op

chunks(op) == op.chunks

SeqsUpTo(S, n) == UNION {[1 .. k -> S] : k \in 0 .. n}

\* the fields that both constructors only copy, drawn as two argument sets
\* that differ in every field
PassThrough ==
    { [block_number |-> 1, fee_account |-> 0, processed_priority_ops |-> <<0, 1>>,
       commit_gas_limit |-> 10, verify_gas_limit |-> 20],
      [block_number |-> 2, fee_account |-> 1, processed_priority_ops |-> <<1, 3>>,
       commit_gas_limit |-> 11, verify_gas_limit |-> 21] }

NoBlock == [absent |-> TRUE]
NoPanic == [kind |-> "none"]
NoQuery == [op |-> "none", outcome |-> "none"]

---------------------------------------------------------------------------
(* chunks_used: iter().filter_map(get_executed_op).map(chunks).sum() *)

RECURSIVE filter_map_executed_op(_)
filter_map_executed_op(txs) ==
    IF txs = << >> THEN << >>
    ELSE LET o == get_executed_op(Head(txs))
         IN  (IF o = None THEN << >> ELSE <<o[1]>>) \o filter_map_executed_op(Tail(txs))

map_chunks(ops) == [i \in 1 .. Len(ops) |-> chunks(ops[i])]

RECURSIVE sum(_)
sum(ns) == IF ns = << >> THEN 0 ELSE Head(ns) + sum(Tail(ns))

\* a sum that counts a placeholder as one chunk
chunks_used_counting_placeholders(self) ==
    sum([i \in 1 .. Len(self.block_transactions) |->
            LET o == get_executed_op(self.block_transactions[i])
            IN  IF o = None THEN 1 ELSE chunks(o[1])])

\* a sum that leaves out the last operation
chunks_used_dropping_last(self) ==
    LET txs == self.block_transactions
    IN  sum(map_chunks(filter_map_executed_op(
            IF txs = << >> THEN txs ELSE SubSeq(txs, 1, Len(txs) - 1))))

chunks_used(self) == sum(map_chunks(filter_map_executed_op(self.block_transactions)))

---------------------------------------------------------------------------
(* IncompleteBlock::new *)

\* a capacity below the chunk usage raised to the usage
new_overriding(block_number, fee_account, block_transactions, processed_priority_ops, block_chunks_size, commit_gas_limit, verify_gas_limit, timestamp) ==
    [block_number |-> block_number,
     fee_account |-> fee_account,
     block_transactions |-> block_transactions,
     processed_priority_ops |-> processed_priority_ops,
     block_chunks_size |->
        LET used == sum(map_chunks(filter_map_executed_op(block_transactions)))
        IN  IF block_chunks_size < used THEN used ELSE block_chunks_size,
     commit_gas_limit |-> commit_gas_limit,
     verify_gas_limit |-> verify_gas_limit,
     timestamp |-> timestamp]

new(block_number, fee_account, block_transactions, processed_priority_ops, block_chunks_size, commit_gas_limit, verify_gas_limit, timestamp) ==
    [block_number |-> block_number,
     fee_account |-> fee_account,
     block_transactions |-> block_transactions,
     processed_priority_ops |-> processed_priority_ops,
     block_chunks_size |-> block_chunks_size,
     commit_gas_limit |-> commit_gas_limit,
     verify_gas_limit |-> verify_gas_limit,
     timestamp |-> timestamp]

---------------------------------------------------------------------------
(* smallest_block_size_for_chunks: the value returned, or the panic *)

Returned(v) == [ok |-> TRUE, value |-> v]
Panicked(p) == [ok |-> FALSE, panic |-> p]

\* panic!("Provided chunks amount ({}) cannot fit in one block, maximum
\* available size is {}", chunks_used, available_block_sizes.last().unwrap()):
\* last() of an empty slice is None, and unwrap() then panics before the
\* message is formatted
cannot_fit_panic(used, available_block_sizes) ==
    IF available_block_sizes = << >>
    THEN [kind |-> "unwrap_none"]
    ELSE [kind |-> "cannot_fit",
          chunks_used |-> used,
          maximum |-> available_block_sizes[Len(available_block_sizes)]]

RECURSIVE scan_block_sizes(_, _, _)
scan_block_sizes(used, available_block_sizes, i) ==
    IF i > Len(available_block_sizes)
    THEN Panicked(cannot_fit_panic(used, available_block_sizes))
    ELSE IF available_block_sizes[i] >= used
         THEN Returned(available_block_sizes[i])
         ELSE scan_block_sizes(used, available_block_sizes, i + 1)

\* the comparison written > instead of >=
RECURSIVE scan_block_sizes_strict(_, _, _)
scan_block_sizes_strict(used, available_block_sizes, i) ==
    IF i > Len(available_block_sizes)
    THEN Panicked(cannot_fit_panic(used, available_block_sizes))
    ELSE IF available_block_sizes[i] > used
         THEN Returned(available_block_sizes[i])
         ELSE scan_block_sizes_strict(used, available_block_sizes, i + 1)

smallest_block_size_for_chunks_strict(used, available_block_sizes) ==
    scan_block_sizes_strict(used, available_block_sizes, 1)

\* the last size returned instead of the panic
smallest_block_size_for_chunks_no_panic(used, available_block_sizes) ==
    LET r == scan_block_sizes(used, available_block_sizes, 1)
    IN  IF r.ok \/ available_block_sizes = << >> THEN r
        ELSE Returned(available_block_sizes[Len(available_block_sizes)])

smallest_block_size_for_chunks(used, available_block_sizes) ==
    scan_block_sizes(used, available_block_sizes, 1)

smallest_block_size(self, available_block_sizes) ==
    smallest_block_size_for_chunks(chunks_used(self), available_block_sizes)

---------------------------------------------------------------------------
(* IncompleteBlock::new_from_available_block_sizes *)

\* the block as built before its size is assigned (block_chunks_size: 0)
unsized_block(block_number, fee_account, block_transactions, processed_priority_ops, commit_gas_limit, verify_gas_limit, timestamp) ==
    [block_number |-> block_number,
     fee_account |-> fee_account,
     block_transactions |-> block_transactions,
     processed_priority_ops |-> processed_priority_ops,
     block_chunks_size |-> 0,
     commit_gas_limit |-> commit_gas_limit,
     verify_gas_limit |-> verify_gas_limit,
     timestamp |-> timestamp]

RECURSIVE Reverse(_)
Reverse(s) == IF s = << >> THEN << >> ELSE Reverse(Tail(s)) \o <<Head(s)>>

\* the transactions handed on in reverse order
new_from_available_block_sizes_reversing(block_number, fee_account, block_transactions, processed_priority_ops, available_block_chunks_sizes, commit_gas_limit, verify_gas_limit, timestamp) ==
    LET b == unsized_block(block_number, fee_account, Reverse(block_transactions),
                 processed_priority_ops, commit_gas_limit, verify_gas_limit, timestamp)
        r == smallest_block_size(b, available_block_chunks_sizes)
    IN  IF r.ok THEN Returned([b EXCEPT !.block_chunks_size = r.value]) ELSE r

new_from_available_block_sizes(block_number, fee_account, block_transactions, processed_priority_ops, available_block_chunks_sizes, commit_gas_limit, verify_gas_limit, timestamp) ==
    LET b == unsized_block(block_number, fee_account, block_transactions,
                 processed_priority_ops, commit_gas_limit, verify_gas_limit, timestamp)
        r == smallest_block_size(b, available_block_chunks_sizes)
    IN  IF r.ok THEN Returned([b EXCEPT !.block_chunks_size = r.value]) ELSE r

---------------------------------------------------------------------------
(* Time queries *)

\* the calendar reaches one day further back than forward, as chrono's does
MinDays == 0 - MaxDays - 1

\* Utc.timestamp_opt(secs, 0): the seconds are split into a day and a second
\* of that day; LocalResult::None when the day is outside the calendar
timestamp_opt(secs) ==
    LET days == secs \div SecsPerDay
        secs_of_day == secs % SecsPerDay
    IN  IF days < MinDays \/ days > MaxDays
        THEN None
        ELSE Some([days |-> days, secs_of_day |-> secs_of_day])

\* DateTime::timestamp(): the unix seconds of a calendar time
unix_seconds(dt) == dt.days * SecsPerDay + dt.secs_of_day

\* Utc.timestamp_opt(self.timestamp as i64, 0).unwrap()
timestamp_utc(self) ==
    LET r == timestamp_opt(AsI64(self.timestamp))
    IN  IF r = None THEN Panicked([kind |-> "unwrap_none"]) ELSE Returned(r[1])

\* chrono::Duration::to_std(): an error for a negative duration
to_std(d) == IF d < 0 THEN None ELSE Some(d)

\* Option/Result::unwrap_or_default() for a Duration
unwrap_or_default(r) == IF r = None THEN 0 ELSE r[1]

\* unwrap() in the place of unwrap_or_default()
elapsed_unwrapping(self, clock) ==
    LET t == timestamp_utc(self)
    IN  IF ~t.ok THEN t
        ELSE LET d == to_std(clock - unix_seconds(t.value))
             IN  IF d = None THEN Panicked([kind |-> "unwrap_none"]) ELSE Returned(d[1])

\* (Utc::now() - self.timestamp_utc()).to_std().unwrap_or_default()
elapsed(self, clock) ==
    LET t == timestamp_utc(self)
    IN  IF ~t.ok THEN t
        ELSE Returned(unwrap_or_default(to_std(clock - unix_seconds(t.value))))

---------------------------------------------------------------------------
(* The state machine: one constructor call, then time queries on its block *)

Init ==
    /\ inputs = [ctor |-> "none"]
    /\ ctor_outcome = "none"
    /\ block = NoBlock
    /\ chunks_local = 0
    /\ panic_info = NoPanic
    /\ now = 0
    /\ query = NoQuery

New ==
    /\ ctor_outcome = "none"
    /\ \E p \in PassThrough, txs \in SeqsUpTo(ExecutedOperations, MaxOps),
          size \in 0 .. MaxTierSize, ts \in U64 :
          /\ inputs' = [ctor |-> "new", pass |-> p, block_transactions |-> txs,
                        block_chunks_size |-> size,
                        available_block_chunks_sizes |-> << >>, timestamp |-> ts]
          /\ block' = new(p.block_number, p.fee_account, txs, p.processed_priority_ops,
                          size, p.commit_gas_limit, p.verify_gas_limit, ts)
    /\ ctor_outcome' = "returned"
    /\ UNCHANGED <<chunks_local, panic_info, now, query>>

NewFromAvailableBlockSizes ==
    /\ ctor_outcome = "none"
    /\ \E p \in PassThrough, txs \in SeqsUpTo(ExecutedOperations, MaxOps),
          sizes \in SeqsUpTo(0 .. MaxTierSize, MaxTiers), ts \in U64 :
          LET r == new_from_available_block_sizes(p.block_number, p.fee_account, txs,
                       p.processed_priority_ops, sizes, p.commit_gas_limit,
                       p.verify_gas_limit, ts)
              b == unsized_block(p.block_number, p.fee_account, txs,
                       p.processed_priority_ops, p.commit_gas_limit,
                       p.verify_gas_limit, ts)
          IN  /\ inputs' = [ctor |-> "new_from_available_block_sizes", pass |-> p,
                            block_transactions |-> txs, block_chunks_size |-> 0,
                            available_block_chunks_sizes |-> sizes, timestamp |-> ts]
              /\ chunks_local' = chunks_used(b)
              /\ ctor_outcome' = IF r.ok THEN "returned" ELSE "panicked"
              /\ block' = IF r.ok THEN r.value ELSE NoBlock
              /\ panic_info' = IF r.ok THEN NoPanic ELSE r.panic
    /\ UNCHANGED <<now, query>>

TimestampUtc ==
    /\ ctor_outcome = "returned"
    /\ query.outcome # "panicked"
    /\ LET r == timestamp_utc(block)
       IN  query' = IF r.ok
                    THEN [op |-> "timestamp_utc", outcome |-> "returned", value |-> r.value]
                    ELSE [op |-> "timestamp_utc", outcome |-> "panicked"]
    /\ UNCHANGED <<inputs, ctor_outcome, block, chunks_local, panic_info, now>>

Elapsed ==
    /\ ctor_outcome = "returned"
    /\ query.outcome # "panicked"
    /\ \E clock \in 0 .. MaxNow :
          LET r == elapsed(block, clock)
          IN  /\ now' = clock
              /\ query' = IF r.ok
                          THEN [op |-> "elapsed", outcome |-> "returned", value |-> r.value]
                          ELSE [op |-> "elapsed", outcome |-> "panicked"]
    /\ UNCHANGED <<inputs, ctor_outcome, block, chunks_local, panic_info>>

Next == New \/ NewFromAvailableBlockSizes \/ TimestampUtc \/ Elapsed

Spec == Init /\ [][Next]_vars

---------------------------------------------------------------------------
(* What the properties speak of *)

SizeInferred == inputs.ctor = "new_from_available_block_sizes"
Direct == inputs.ctor = "new"
CtorReturned == ctor_outcome = "returned"
CtorPanicked == ctor_outcome = "panicked"

\* the chunk cost of one operation: nothing for a placeholder
ChunkCost(e) == IF e.executed_op = None THEN 0 ELSE e.executed_op[1].chunks

\* the total chunk usage of an operation list, added up from its end
RECURSIVE TotalChunkCost(_)
TotalChunkCost(txs) ==
    IF Len(txs) = 0 THEN 0
    ELSE TotalChunkCost(SubSeq(txs, 1, Len(txs) - 1)) + ChunkCost(txs[Len(txs)])

Usage == TotalChunkCost(inputs.block_transactions)
Sizes == inputs.available_block_chunks_sizes
Tiers == 1 .. Len(Sizes)

IsAscending(s) == \A i, j \in 1 .. Len(s) : i < j => s[i] <= s[j]

OnlyPlaceholders == \A i \in 1 .. Len(inputs.block_transactions) :
                        inputs.block_transactions[i].executed_op = None

\* the seconds a calendar time can stand for
InCalendar(secs) ==
    /\ secs >= MinDays * SecsPerDay
    /\ secs <= MaxDays * SecsPerDay + (SecsPerDay - 1)

ElapsedReturned == query.op = "elapsed" /\ query.outcome = "returned"

---------------------------------------------------------------------------
(* Properties *)

\* C1: for a non-empty operation list and an ascending capacity list whose
\* largest tier is >= the total chunk usage, new_from_available_block_sizes
\* returns a block whose block_chunks_size is a tier >= the usage, and no tier
\* >= the usage is smaller than it.
C1_SmallestFittingTier ==
    (/\ SizeInferred
     /\ Len(inputs.block_transactions) > 0
     /\ IsAscending(Sizes)
     /\ \E i \in Tiers : Sizes[i] >= Usage /\ \A j \in Tiers : Sizes[j] <= Sizes[i])
    => /\ CtorReturned
       /\ \E i \in Tiers : Sizes[i] = block.block_chunks_size
       /\ block.block_chunks_size >= Usage
       /\ \A i \in Tiers : Sizes[i] >= Usage => block.block_chunks_size <= Sizes[i]

\* C1 witness: an ascending list whose first tier is too small, so that the
\* second one is selected
C1_Witness ==
    /\ SizeInferred /\ CtorReturned
    /\ Len(inputs.block_transactions) > 0
    /\ Len(Sizes) = 2 /\ IsAscending(Sizes)
    /\ Sizes[1] < Usage
    /\ block.block_chunks_size = Sizes[2]

\* C2: when the total chunk usage exceeds every capacity of the list,
\* new_from_available_block_sizes panics and returns no block.
C2_AbortsWhenNothingFits ==
    (SizeInferred /\ \A i \in Tiers : Sizes[i] < Usage)
    => CtorPanicked /\ block = NoBlock

\* C2 witness: a non-empty list, every tier below the usage, and the panic
C2_Witness ==
    /\ SizeInferred /\ CtorPanicked
    /\ Len(Sizes) > 0
    /\ \A i \in Tiers : Sizes[i] < Usage

\* C3: whenever size-inferred construction panics, the panic reports the
\* required chunk count and the maximum capacity of the supplied list.
C3_PanicReportsRequiredAndMaximum ==
    (SizeInferred /\ CtorPanicked)
    => /\ panic_info.kind = "cannot_fit"
       /\ panic_info.chunks_used = Usage
       /\ \E i \in Tiers : Sizes[i] = panic_info.maximum
       /\ \A i \in Tiers : Sizes[i] <= panic_info.maximum

\* C4: IncompleteBlock::new always returns, and block_chunks_size of the block
\* is the capacity the caller supplied, also when it is below the chunk usage.
C4_DirectKeepsSuppliedCapacity ==
    Direct => CtorReturned /\ block.block_chunks_size = inputs.block_chunks_size

\* C4 witness: a supplied capacity below the chunk usage, kept as it is
C4_Witness ==
    /\ Direct /\ CtorReturned
    /\ inputs.block_chunks_size < Usage
    /\ block.block_chunks_size = inputs.block_chunks_size

C6_ReturnedBlockFits ==
    (SizeInferred /\ CtorReturned)
    => /\ \E i \in Tiers : Sizes[i] = block.block_chunks_size
       /\ block.block_chunks_size >= TotalChunkCost(block.block_transactions)

\* C6 witness: a list that is not ascending, operations that cost chunks,
\* and a block returned with a supplied size that holds them
C6_Witness ==
    /\ SizeInferred /\ CtorReturned
    /\ ~IsAscending(Sizes)
    /\ TotalChunkCost(block.block_transactions) > 0
    /\ block.block_chunks_size >= TotalChunkCost(block.block_transactions)

\* C7: elapsed() returns the clock reading minus the block's timestamp when
\* the timestamp is not in the future, and zero when it is.
C7_ElapsedIsClampedDifference ==
    ElapsedReturned
    => query.value = IF now >= block.timestamp THEN now - block.timestamp ELSE 0

C9_TimestampUtcRoundTrips ==
    query.op = "timestamp_utc"
    => IF InCalendar(block.timestamp)
       THEN query.outcome = "returned" /\ unix_seconds(query.value) = block.timestamp
       ELSE query.outcome = "panicked"

\* the first index of the capacity list whose size is >= the usage
FirstFit == CHOOSE i \in Tiers : Sizes[i] >= Usage /\ \A j \in 1 .. (i - 1) : Sizes[j] < Usage

====
